---- MODULE Spec2Model ----
(***************************************************************************)
(* Mocktopus: the #[mockable] header (macros/src/header_builder.rs) and    *)
(* the run-time protocol the generated header executes on every call of an *)
(* instrumented function, as exercised by tests/mocking.rs.                *)
(*                                                                         *)
(* Build time: FnHeaderBuilder::build turns a signature into the pieces of *)
(* the header (identity expression, extraction, restoration, forgetting).  *)
(* Run time: every thread (one per #[test]) installs mocks and calls       *)
(* instrumented functions; a call interprets the header of its function.   *)
(***************************************************************************)
EXTENDS Integers, Sequences, FiniteSets, TLC

(***************************************************************************)
(* Bounds                                                                  *)
(***************************************************************************)
MaxInstalls == 2
MaxCalls == 3
MaxGenerics == 2
MaxInputs == 2

(***************************************************************************)
(* syn values: generic parameters, patterns, arguments, signatures          *)
(***************************************************************************)
NoIdent == ""

TypeParam(n) == [tag |-> "Type", ident |-> n]
LifetimeParam(n) == [tag |-> "Lifetime", ident |-> n]
ConstParam(n) == [tag |-> "Const", ident |-> n]

Receiver == [tag |-> "Receiver", pat |-> "None", ident |-> "self"]
TypedIdent(n) == [tag |-> "Typed", pat |-> "Ident", ident |-> n]
TypedTuple(n) == [tag |-> "Typed", pat |-> "Tuple", ident |-> n]

StaticFn == [tag |-> "StaticFn", path |-> NoIdent]
StructImpl == [tag |-> "StructImpl", path |-> NoIdent]
TraitDefault == [tag |-> "TraitDefault", path |-> NoIdent]
TraitImpl(p) == [tag |-> "TraitImpl", path |-> p]

(***************************************************************************)
(* Small sequence helpers                                                   *)
(***************************************************************************)
RECURSIVE Flatten(_)
Flatten(ss) == IF ss = <<>> THEN <<>> ELSE Head(ss) \o Flatten(Tail(ss))

Range(s) == {s[i] : i \in DOMAIN s}

(***************************************************************************)
(* header_builder.rs: the generator                                         *)
(***************************************************************************)
\* Option<String> as a sequence of length 0 or 1.
get_generic_param_name_lifetimes(param) ==
    IF param.tag = "Lifetime" THEN <<param.ident>> ELSE <<>>

get_generic_param_name_all(param) == <<param.ident>>

get_generic_param_name(param) ==
    IF param.tag = "Type" THEN <<param.ident>> ELSE <<>>

\* The names written between ::< and >, each followed by a comma.
write_fn_generics(fn_decl) ==
    Flatten([i \in DOMAIN fn_decl.generics |->
                get_generic_param_name(fn_decl.generics[i])])

write_trait_path(path) == path

\* The identity expression: prefix, identifier, generic-argument list.
write_full_fn_name(builder, fn_decl) ==
    [prefix |-> CASE builder.tag = "StaticFn" -> <<>>
                  [] builder.tag \in {"StructImpl", "TraitDefault"} -> <<"Self">>
                  [] builder.tag = "TraitImpl" ->
                        <<"Self", "as", write_trait_path(builder.path)>>,
     ident |-> fn_decl.ident,
     generics |-> write_fn_generics(fn_decl)]

\* The name of one argument; Invalid stands for the panic at lines 190-194.
Invalid(fn_arg) == [ok |-> FALSE, name |-> NoIdent, arg |-> fn_arg]
Valid(n) == [ok |-> TRUE, name |-> n, arg |-> Receiver]

fn_arg_name_any_pattern(fn_arg) ==
    IF fn_arg.tag = "Receiver" THEN Valid("self") ELSE Valid(fn_arg.ident)

fn_arg_name(fn_arg) ==
    IF fn_arg.tag = "Receiver" THEN Valid("self")
    ELSE IF fn_arg.pat = "Ident" THEN Valid(fn_arg.ident)
    ELSE Invalid(fn_arg)

iter_fn_arg_names(input_args) ==
    [i \in DOMAIN input_args |-> fn_arg_name(input_args[i])]

\* The iterator panics at the first argument that is no simple binding.
FirstInvalid(input_args) ==
    LET names == iter_fn_arg_names(input_args)
        bad == {i \in DOMAIN names : ~names[i].ok}
    IN  IF bad = {} THEN 0 ELSE CHOOSE i \in bad : \A j \in bad : i <= j

\* (transmute_copy(&a), transmute_copy(&b), ): the bindings copied, in order.
write_extract_args_reversed(fn_args) ==
    [i \in DOMAIN fn_args |->
        [op |-> "transmute_copy",
         name |-> iter_fn_arg_names(fn_args)[Len(fn_args) + 1 - i].name]]

write_extract_args(fn_args) ==
    IF fn_args = <<>> THEN <<>>
    ELSE [i \in DOMAIN fn_args |->
            [op |-> "transmute_copy", name |-> iter_fn_arg_names(fn_args)[i].name]]

\* { swap(&mut a, &mut tuple.0); ...; forget(tuple); }, or () for no arguments.
write_restore_args_unindexed(fn_args) ==
    IF fn_args = <<>> THEN <<>>
    ELSE [i \in DOMAIN fn_args |->
            [op |-> "swap", name |-> iter_fn_arg_names(fn_args)[i].name, index |-> 0]]
         \o <<[op |-> "forget_tuple", name |-> NoIdent, index |-> 0]>>

write_restore_args_nothing(fn_args) == <<>>

write_restore_args(fn_args) ==
    IF fn_args = <<>> THEN <<>>
    ELSE [i \in DOMAIN fn_args |->
            [op |-> "swap", name |-> iter_fn_arg_names(fn_args)[i].name,
             index |-> i - 1]]
         \o <<[op |-> "forget_tuple", name |-> NoIdent, index |-> 0]>>

\* forget(a); forget(b); ...
write_forget_args_nothing(fn_args) == <<>>

write_forget_args(fn_args) ==
    [i \in DOMAIN fn_args |->
        [op |-> "forget", name |-> iter_fn_arg_names(fn_args)[i].name]]

\* The three arms of the match on catch_unwind(call_mock(..)): the statements
\* each arm runs. An arm that neither returns nor unwinds falls into the body.
Stmt(op) == [op |-> op, name |-> NoIdent]

match_arms_return_falls_through(fn_args) ==
    [Continue |-> write_restore_args(fn_args),
     Return |-> write_forget_args(fn_args),
     Unwind |-> write_forget_args(fn_args) \o <<Stmt("resume_unwind")>>]

match_arms_unwind_swallowed(fn_args) ==
    [Continue |-> write_restore_args(fn_args),
     Return |-> write_forget_args(fn_args) \o <<Stmt("return")>>,
     Unwind |-> write_forget_args(fn_args)]

match_arms_skips_empty(fn_args) ==
    IF fn_args = <<>>
    THEN [Continue |-> <<>>, Return |-> <<>>, Unwind |-> <<>>]
    ELSE [Continue |-> write_restore_args(fn_args),
          Return |-> write_forget_args(fn_args) \o <<Stmt("return")>>,
          Unwind |-> write_forget_args(fn_args) \o <<Stmt("resume_unwind")>>]

match_arms(fn_args) ==
    [Continue |-> write_restore_args(fn_args),
     Return |-> write_forget_args(fn_args) \o <<Stmt("return")>>,
     Unwind |-> write_forget_args(fn_args) \o <<Stmt("resume_unwind")>>]

\* FnHeaderBuilder::build: the header, or the panic of iter_fn_arg_names.
build(builder, fn_decl) ==
    LET fn_args == fn_decl.inputs
        bad == FirstInvalid(fn_args)
    IN  IF bad # 0
        THEN [ok |-> FALSE,
              error |-> <<"Mocktopus internal error: invalid fn arg type", fn_args[bad]>>]
        ELSE [ok |-> TRUE,
              full_fn_name |-> write_full_fn_name(builder, fn_decl),
              extract_args |-> write_extract_args(fn_args),
              restore_args |-> write_restore_args(fn_args),
              forget_args |-> write_forget_args(fn_args),
              arms |-> match_arms(fn_args)]

(***************************************************************************)
(* The instrumented program: the #[mockable] functions of tests/mocking.rs  *)
(* and one inherent method with a receiver and an owned argument.           *)
(***************************************************************************)
Sig(ident, generics, inputs) ==
    [ident |-> ident, generics |-> generics, inputs |-> inputs]

Decl(scope, builder, sig) == [scope |-> scope, builder |-> builder, sig |-> sig]

NoArgsA == Decl("mock_safe", StaticFn, Sig("no_args_returns_str", <<>>, <<>>))

NoArgsB == Decl("mocks_do_not_leak_between_tests", StaticFn,
                Sig("no_args_returns_str", <<>>, <<>>))

GenericFn == Decl("mocking_generic", StaticFn,
                  Sig("function", <<TypeParam("T")>>, <<TypedIdent("generic")>>))

Method == Decl("mocking_methods::Struct", StructImpl,
               Sig("method", <<LifetimeParam("a"), TypeParam("T")>>,
                   <<Receiver, TypedIdent("arg")>>))

Destructuring == Decl("mocking_fns", StaticFn,
                      Sig("pattern", <<>>, <<TypedIdent("x"), TypedTuple("(a, b)")>>))

\* A function whose body panics, and one that two threads call at once.
Panicking == Decl("mocking_fns", StaticFn,
                  Sig("panics", <<>>, <<TypedIdent("arg")>>))

OneArg == Decl("mocking_fns", StaticFn,
               Sig("one_arg", <<>>, <<TypedIdent("arg")>>))

Decls == {NoArgsA, NoArgsB, GenericFn, Method, Destructuring, Panicking, OneArg}

\* Types and lifetimes as generic arguments.
Ty(ref, lt, base) == [ref |-> ref, lt |-> lt, base |-> base]
Lt(lt) == Ty("lifetime", lt, "lifetime")

RefLocalChar == Ty("shared", "local", "char")
RefStaticChar == Ty("shared", "static", "char")
MutLocalChar == Ty("mut", "local", "char")
RefLocalI32 == Ty("shared", "local", "i32")
OwnedString == Ty("owned", "none", "String")

\* The instantiations each function is called with: generic parameter -> argument.
NoInst == [x \in {} |-> RefLocalChar]

Insts(d) ==
    CASE d = GenericFn ->
            {[T |-> ty] : ty \in {RefLocalChar, RefStaticChar, MutLocalChar, RefLocalI32}}
      [] d = Method -> {[a |-> Lt("local"), T |-> OwnedString]}
      [] OTHER -> {NoInst}

\* A value: what the body can observe (v) and the resource it owns (r, 0: none).
Val(v, r) == [v |-> v, r |-> r]

\* The arguments thread t calls with, one per input, by instantiation
\* (tests/mocking.rs:86-90).
CallerArgs(t, d, inst) ==
    CASE d = GenericFn ->
            <<Val(CASE inst.T = RefLocalChar -> <<"L">>
                    [] inst.T = RefStaticChar -> <<"S">>
                    [] inst.T = MutLocalChar -> <<"M">>
                    [] OTHER -> <<"3">>, 0)>>
      [] d = Method -> <<Val(<<"self0">>, 1), Val(<<"arg0">>, 2)>>
      [] d = Panicking -> <<Val(<<"arg0">>, 1)>>
      [] d = OneArg -> <<Val(<<"arg", t>>, 1)>>
      [] OTHER -> <<>>

RECURSIVE Values(_)
Values(vals) == IF vals = <<>> THEN <<>> ELSE Head(vals).v \o Values(Tail(vals))

(***************************************************************************)
(* Function identity (mocking runtime): the item an expression resolves to  *)
(* and its type arguments, lifetimes erased.                                *)
(***************************************************************************)
erase_lifetime_kept(ty) == ty

erase_lifetime(ty) == [ty EXCEPT !.lt = "erased"]

\* The generic names of an identity expression, resolved inside the function
\* body under the call's instantiation.
resolve_generics(generics, inst) ==
    [i \in DOMAIN generics |-> inst[generics[i]]]

mock_id_unscoped(scope, ident, targs) ==
    [scope |-> NoIdent, ident |-> ident,
     targs |-> [i \in DOMAIN targs |-> erase_lifetime(targs[i])]]

mock_id(scope, ident, targs) ==
    [scope |-> scope, ident |-> ident,
     targs |-> [i \in DOMAIN targs |-> erase_lifetime(targs[i])]]

\* The identity the header passes to call_mock: &{full_fn_name}.
header_id(d, inst) ==
    LET name == build(d.builder, d.sig).full_fn_name
    IN  mock_id(d.scope, name.ident, resolve_generics(name.generics, inst))

\* The identity a test names when it installs: function::<&char>.mock_raw(..).
TypeArgs(d, inst) ==
    LET tps == SelectSeq(d.sig.generics, LAMBDA g : g.tag = "Type")
    IN  [i \in DOMAIN tps |-> inst[tps[i].ident]]

target_id(d, inst) == mock_id(d.scope, d.sig.ident, TypeArgs(d, inst))

(***************************************************************************)
(* Replacement callbacks and the store of installed mocks                   *)
(***************************************************************************)
Threads == {"t1", "t2"}

Kinds == {"Continue", "Modify", "Return", "Panic"}

Callback(kind, by) == [kind |-> kind, by |-> by]
NoMock == Callback("NoMock", NoIdent)

Resources(vals) == SelectSeq([i \in DOMAIN vals |-> vals[i].r], LAMBDA r : r # 0)

Outcome(kind, tup, val, dropped, cb) ==
    [kind |-> kind, tup |-> tup, val |-> val, dropped |-> dropped, cb |-> cb]
NoOutcome == Outcome("None", <<>>, <<>>, <<>>, NoMock)

\* A callback owns the tuple it is called with: what it does not hand back in
\* Continue it drops (at its end, or while it unwinds).
invoke(cb, tup) ==
    CASE cb.kind = "Continue" -> Outcome("Continue", tup, <<>>, <<>>, cb)
      [] cb.kind = "Modify" ->
            Outcome("Continue",
                    [i \in DOMAIN tup |->
                        Val(<<"modified", cb.by, ToString(i)>>,
                            IF tup[i].r = 0 THEN 0 ELSE Len(tup) + i)],
                    <<>>, Resources(tup), cb)
      [] cb.kind = "Return" ->
            Outcome("Return", <<>>, <<"mocked", cb.by>> \o Values(tup),
                    Resources(tup), cb)
      [] cb.kind = "Panic" ->
            Outcome("Unwind", <<>>, <<"panic", cb.by>>, Resources(tup), cb)

EmptyStore == [id \in {} |-> NoMock]

\* Installing replaces whatever the slot held.
store_put_keep_first(store, id, cb) ==
    [x \in DOMAIN store \cup {id} |-> IF x \in DOMAIN store THEN store[x] ELSE cb]

store_put(store, id, cb) ==
    [x \in DOMAIN store \cup {id} |-> IF x = id THEN cb ELSE store[x]]

store_get(store, id) == IF id \in DOMAIN store THEN store[id] ELSE NoMock

\* Mockable::call_mock under catch_unwind: no entry is Continue with the input.
call_mock(store, id, tup) ==
    IF store_get(store, id) = NoMock
    THEN Outcome("Continue", tup, <<>>, <<>>, NoMock)
    ELSE invoke(store_get(store, id), tup)

\* The store a thread installs into and queries: each thread (test) its own.
store_key_shared(t) == "t1"

store_key(t) == t

(***************************************************************************)
(* The statements of the header, executed on a call frame                   *)
(***************************************************************************)
\* The frame whose tuple a dispatch passes on: {extract_args} is a temporary
\* of the call itself, built from the bindings of the call.
extract_args_frame_shared(t) == "t1"

extract_args_frame(t) == t

\* The binding name of a parameter in the compiled function.
ParamName(fn_arg) == fn_arg.ident

\* A frame's storage: the argument bindings, the bindings forgotten, the
\* tuple (args_to_continue), whether the tuple was forgotten, how the header
\* left the function.
Storage(bind, fgt, tup, tupfgt, exit) ==
    [bind |-> bind, fgt |-> fgt, tup |-> tup, tupfgt |-> tupfgt, exit |-> exit]

exec(s, st) ==
    CASE s.op = "swap" ->
            [st EXCEPT !.bind[s.name] = st.tup[s.index + 1],
                       !.tup[s.index + 1] = st.bind[s.name]]
      [] s.op = "forget_tuple" -> [st EXCEPT !.tupfgt = TRUE]
      [] s.op = "forget" -> [st EXCEPT !.fgt = @ \cup {s.name}]
      [] s.op = "return" -> [st EXCEPT !.exit = "return"]
      [] s.op = "resume_unwind" -> [st EXCEPT !.exit = "unwind"]

RECURSIVE run(_, _)
run(stmts, st) ==
    IF stmts = <<>> \/ st.exit # "none" THEN st
    ELSE run(Tail(stmts), exec(Head(stmts), st))

\* Resource ids of one call: the caller's arguments own 1..2, what a callback
\* creates in their place 3..4.
Res == 1..4

NoDrops == [r \in Res |-> 0]

RECURSIVE drop_all(_, _)
drop_all(drops, rs) ==
    IF rs = <<>> THEN drops
    ELSE drop_all([drops EXCEPT ![Head(rs)] = @ + 1], Tail(rs))

\* The destructors of the bindings that were not forgotten, run when the
\* function is left (end of body, return, unwinding).
epilogue(inputs, st) ==
    Resources(SelectSeq([i \in DOMAIN inputs |->
                            IF ParamName(inputs[i]) \in st.fgt THEN Val(<<>>, 0)
                            ELSE st.bind[ParamName(inputs[i])]],
                        LAMBDA v : TRUE))

Result(kind, val) == [kind |-> kind, val |-> val]
NoResult == Result("none", <<>>)

\* The un-instrumented function: what its body returns for its arguments.
original_body(d, seen) ==
    IF d = Panicking THEN Result("panic", <<"body panicked", d.sig.ident>> \o seen)
    ELSE Result("value", <<"not mocked", d.sig.ident>> \o seen)

\* What runs inside the closure given to catch_unwind: call_mock, nothing else.
catch_unwind_covers_all(step) == TRUE

catch_unwind_covers(step) == step = "call_mock"

(***************************************************************************)
(* State                                                                    *)
(***************************************************************************)
VARIABLES
    scenario,    \* the test program: its threads, functions and callbacks
    mock_store,  \* per store key: identity -> installed callback
    pc,          \* per thread: idle, dispatch, resolve, body, done
    frame,       \* per thread: the call in progress or just finished
    calls,       \* calls started so far, by all threads
    log,         \* per thread: the installs it made, in order
    last,        \* per target: the latest install by any thread, and how many
    expansion    \* build time: the item #[mockable] expands, and what build gave

vars == <<scenario, mock_store, pc, frame, calls, log, last, expansion>>

Scenario(threads, decls, kinds) ==
    [threads |-> threads, decls |-> decls, kinds |-> kinds]

Scenarios ==
    { Scenario({"t1"}, {Method, NoArgsA, Destructuring}, Kinds),
      Scenario({"t1"}, {GenericFn}, {"Return", "Continue"}),
      Scenario(Threads, {NoArgsB}, {"Return", "Panic"}),
      Scenario({"t1"}, {NoArgsA, NoArgsB}, {"Return", "Panic"}),
      Scenario({"t1"}, {Panicking}, {"Continue", "Modify"}),
      Scenario(Threads, {OneArg}, {"Modify", "Return"}) }

NoId == mock_id(NoIdent, NoIdent, <<>>)

\* What a test names when it installs: the function and its type arguments.
Target(d, inst) ==
    <<d.scope, d.sig.ident, [g \in DOMAIN inst |-> <<inst[g].ref, inst[g].base>>]>>

Prior(cb, n) == [cb |-> cb, n |-> n]

LastOf(target) == IF target \in DOMAIN last THEN last[target] ELSE Prior(NoMock, 0)

Frame(d, inst, args, st) ==
    [decl |-> d, inst |-> inst, args |-> args, st |-> st, id |-> NoId,
     before |-> Prior(NoMock, 0), at |-> 0, prior |-> Prior(NoMock, 0), out |-> NoOutcome, ran |-> FALSE, seen |-> <<>>,
     result |-> NoResult, drops |-> NoDrops, steps |-> <<>>]

NoFrame == Frame(NoArgsA, NoInst, <<>>,
                 Storage([n \in {} |-> Val(<<>>, 0)], {}, <<>>, FALSE, "none"))

\* The items build is run on: every builder, generic parameters of each
\* kind, arguments that are the receiver, simple bindings or a pattern.
Builders == {StaticFn, StructImpl, TraitDefault, TraitImpl("Trait")}
GenericParams == {TypeParam("T"), TypeParam("U"), LifetimeParam("a"), ConstParam("N")}
FnArgs == {Receiver, TypedIdent("x"), TypedIdent("y"), TypedTuple("(a, b)")}

SeqsUpTo(S, n) == UNION {[1..k -> S] : k \in 0..n}
Distinct(seq) == \A i, j \in DOMAIN seq : seq[i] = seq[j] => i = j

GenericLists == {g \in SeqsUpTo(GenericParams, MaxGenerics) : Distinct(g)}
InputLists ==
    {a \in SeqsUpTo(FnArgs, MaxInputs) :
        Distinct(a) /\ \A i \in DOMAIN a : a[i] = Receiver => i = 1}

NoHeader == [ok |-> FALSE, error |-> <<>>]

Expansion(builder, sig, stage, out) ==
    [builder |-> builder, sig |-> sig, stage |-> stage, out |-> out]
NoExpansion == Expansion(StaticFn, Sig(NoIdent, <<>>, <<>>), "none", NoHeader)

Init ==
    /\ expansion = NoExpansion
    /\ scenario \in Scenarios
    /\ mock_store = [k \in Threads |-> EmptyStore]
    /\ pc = [t \in Threads |-> "idle"]
    /\ frame = [t \in Threads |-> NoFrame]
    /\ calls = 0
    /\ log = [t \in Threads |-> <<>>]
    /\ last = [x \in {} |-> Prior(NoMock, 0)]

\* Installs made so far, by all threads.
Installs == Len(log["t1"]) + Len(log["t2"])

Between(t) == t \in scenario.threads /\ pc[t] \in {"idle", "done"}

(***************************************************************************)
(* Actions                                                                  *)
(***************************************************************************)
\* target.mock_raw(callback) / target.mock_safe(callback)
Install(t, d, inst, kind) ==
    /\ Between(t)
    /\ Installs < MaxInstalls
    /\ d \in scenario.decls /\ build(d.builder, d.sig).ok
    /\ inst \in Insts(d)
    /\ kind \in scenario.kinds
    /\ mock_store' = [mock_store EXCEPT ![store_key(t)] =
                         store_put(@, target_id(d, inst), Callback(kind, t))]
    /\ log' = [log EXCEPT ![t] =
                  Append(@, [decl |-> d, inst |-> inst, id |-> target_id(d, inst),
                             cb |-> Callback(kind, t)])]
    /\ last' = [x \in DOMAIN last \cup {Target(d, inst)} |->
                  IF x = Target(d, inst)
                  THEN Prior(Callback(kind, t), LastOf(x).n + 1)
                  ELSE last[x]]
    /\ UNCHANGED <<expansion, scenario, pc, frame, calls>>

\* A call enters the function; the header copies every binding into the tuple.
Extract(t, d, inst) ==
    /\ Between(t)
    /\ calls < MaxCalls
    /\ d \in scenario.decls /\ build(d.builder, d.sig).ok
    /\ inst \in Insts(d)
    /\ LET header == build(d.builder, d.sig)
           args == CallerArgs(t, d, inst)
           bind == [n \in {ParamName(d.sig.inputs[i]) : i \in DOMAIN d.sig.inputs} |->
                      args[CHOOSE i \in DOMAIN d.sig.inputs :
                              ParamName(d.sig.inputs[i]) = n]]
           tup == [i \in DOMAIN header.extract_args |->
                      bind[header.extract_args[i].name]]
       IN  frame' = [frame EXCEPT ![t] =
                [Frame(d, inst, args, Storage(bind, {}, tup, FALSE, "none"))
                    EXCEPT !.before = LastOf(Target(d, inst)),
                           !.steps = <<"extract">>]]
    /\ pc' = [pc EXCEPT ![t] = "dispatch"]
    /\ calls' = calls + 1
    /\ UNCHANGED <<expansion, scenario, mock_store, log, last>>

\* catch_unwind(|| call_mock(&full_fn_name, tuple)): the tuple moves into the
\* callback, which runs to its end on this thread.
Dispatch(t) ==
    /\ t \in scenario.threads /\ pc[t] = "dispatch"
    /\ LET f == frame[t]
           id == header_id(f.decl, f.inst)
           tup == frame[extract_args_frame(t)].st.tup
           out == call_mock(mock_store[store_key(t)], id, tup)
       IN  frame' = [frame EXCEPT ![t] =
                [f EXCEPT !.id = id, !.at = Len(log[t]), !.out = out,
                          !.prior = LastOf(Target(f.decl, f.inst)),
                          !.st.tup = out.tup,
                          !.drops = drop_all(@, out.dropped),
                          !.steps = Append(@, "dispatch")]]
    /\ pc' = [pc EXCEPT ![t] = "resolve"]
    /\ UNCHANGED <<expansion, scenario, mock_store, calls, log, last>>

\* One arm of the match runs; the function is left, or the body is next.
Resolve(t, kind) ==
    /\ t \in scenario.threads /\ pc[t] = "resolve"
    /\ frame[t].out.kind = kind
    /\ LET f == frame[t]
           header == build(f.decl.builder, f.decl.sig)
           st == run(header.arms[kind], f.st)
           tupdrops == IF kind = "Continue" /\ ~st.tupfgt
                       THEN Resources(st.tup) ELSE <<>>
           left == st.exit # "none"
           enddrops == IF left THEN epilogue(f.decl.sig.inputs, st) ELSE <<>>
       IN  /\ frame' = [frame EXCEPT ![t] =
                [f EXCEPT !.st = st,
                          !.drops = drop_all(drop_all(@, tupdrops), enddrops),
                          !.result = CASE st.exit = "return" -> Result("value", f.out.val)
                                       [] st.exit = "unwind" -> Result("panic", f.out.val)
                                       [] OTHER -> NoResult,
                          !.steps = Append(@, kind)]]
           /\ pc' = [pc EXCEPT ![t] = IF left THEN "done" ELSE "body"]
    /\ UNCHANGED <<expansion, scenario, mock_store, calls, log, last>>

ResolveContinue(t) == Resolve(t, "Continue")
ResolveReturn(t) == Resolve(t, "Return")
ResolveUnwind(t) == Resolve(t, "Unwind")

\* The original body reads its bindings and returns or panics; the bindings
\* are dropped as the function is left. A panic that catch_unwind covered
\* would be handed to the Err arm.
Body(t) ==
    /\ t \in scenario.threads /\ pc[t] = "body"
    /\ LET f == frame[t]
           inputs == f.decl.sig.inputs
           seen == [i \in DOMAIN inputs |-> f.st.bind[ParamName(inputs[i])]]
           result == original_body(f.decl, Values(seen))
           caught == result.kind = "panic" /\ catch_unwind_covers("body")
           st == IF caught
                 THEN run(build(f.decl.builder, f.decl.sig).arms["Unwind"], f.st)
                 ELSE f.st
       IN  frame' = [frame EXCEPT ![t] =
                [f EXCEPT !.ran = TRUE, !.seen = seen, !.st = st,
                          !.result = result,
                          !.drops = drop_all(@, epilogue(inputs, st)),
                          !.steps = IF caught THEN @ \o <<"body", "Unwind">>
                                    ELSE Append(@, "body")]]
    /\ pc' = [pc EXCEPT ![t] = "done"]
    /\ UNCHANGED <<expansion, scenario, mock_store, calls, log, last>>

Next ==
    \/ \E t \in Threads, d \in Decls, kind \in Kinds :
          \E inst \in Insts(d) : Install(t, d, inst, kind)
    \/ \E t \in Threads, d \in Decls : \E inst \in Insts(d) : Extract(t, d, inst)
    \/ \E t \in Threads : Dispatch(t)
    \/ \E t \in Threads : ResolveContinue(t)
    \/ \E t \in Threads : ResolveReturn(t)
    \/ \E t \in Threads : ResolveUnwind(t)
    \/ \E t \in Threads : Body(t)

Spec == Init /\ [][Next]_vars

(***************************************************************************)
(* Build time alone: #[mockable] on one item runs FnHeaderBuilder::build    *)
(***************************************************************************)
ExpandInit ==
    /\ \E b \in Builders, g \in GenericLists, a \in InputLists :
          expansion = Expansion(b, Sig("f", g, a), "parsed", NoHeader)
    /\ scenario = Scenario({}, {}, {})
    /\ mock_store = [k \in Threads |-> EmptyStore]
    /\ pc = [t \in Threads |-> "idle"]
    /\ frame = [t \in Threads |-> NoFrame]
    /\ calls = 0
    /\ log = [t \in Threads |-> <<>>]
    /\ last = [x \in {} |-> Prior(NoMock, 0)]

\* build returns the header statement, or panics and leaves none.
Expand ==
    /\ expansion.stage = "parsed"
    /\ LET out == build(expansion.builder, expansion.sig)
       IN  expansion' = [expansion EXCEPT
                            !.stage = IF out.ok THEN "expanded" ELSE "aborted",
                            !.out = out]
    /\ UNCHANGED <<scenario, mock_store, pc, frame, calls, log, last>>

ExpandNext == Expand

ExpandSpec == ExpandInit /\ [][ExpandNext]_vars

(***************************************************************************)
(* What the properties speak of                                             *)
(***************************************************************************)
Live == {t \in scenario.threads : pc[t] # "idle"}
Dispatched == {t \in scenario.threads : pc[t] \in {"resolve", "body", "done"}}
Finished == {t \in scenario.threads : pc[t] = "done"}

\* The installs thread t made for the function and type arguments of its
\* call (lifetimes aside), among the first n installs of the log.
OwnInstalls(t, d, inst, n) ==
    {k \in 1..n : Target(log[t][k].decl, log[t][k].inst) = Target(d, inst)}

Latest(ks) == CHOOSE k \in ks : \A j \in ks : j <= k

\* The callback thread t last installed for its call's function, NoMock if none.
OwnMock(t) ==
    LET f == frame[t]
        ks == OwnInstalls(t, f.decl, f.inst, f.at)
    IN  IF ks = {} THEN NoMock ELSE log[t][Latest(ks)].cb

Originals(f) == Range(Resources(f.args))

\* C1: every resource owned by an argument of a call is destructed at most
\* once while the call runs and exactly once when it is over, whichever way
\* the call resolves (no replacement, Continue, Return, Unwind).
C1_DroppedExactlyOnce ==
    \A t \in Live :
        \A r \in Originals(frame[t]) :
            /\ frame[t].drops[r] <= 1
            /\ pc[t] = "done" => frame[t].drops[r] = 1

C1_Witness ==
    \E t \in Finished :
        /\ frame[t].decl = Method
        /\ frame[t].out.cb.kind = "Return"
        /\ frame[t].drops[1] = 1 /\ frame[t].drops[2] = 1

\* C2: with no replacement installed for the function, dispatch is Continue
\* with the caller's arguments, the body runs on exactly these, and result and
\* destructions are those of the un-instrumented function.
C2_Transparency ==
    \A t \in Dispatched :
        LET f == frame[t] IN
        OwnMock(t) = NoMock =>
            /\ f.out.kind = "Continue" /\ f.out.tup = f.args
            /\ pc[t] = "done" =>
                  /\ f.ran /\ f.seen = f.args
                  /\ f.result = original_body(f.decl, Values(f.args))
                  /\ f.drops = drop_all(NoDrops, Resources(f.args))

C2_Witness ==
    \E t \in Finished :
        /\ frame[t].decl = Method /\ OwnMock(t) = NoMock
        /\ frame[t].result = Result("value", <<"not mocked", "method", "self0", "arg0">>)

\* C3: when the installed replacement returns Return(v), the call returns v
\* and the original body does not run.
C3_ReturnSkipsBody ==
    \A t \in Dispatched :
        LET f == frame[t] IN
        OwnMock(t).kind = "Return" =>
            /\ pc[t] # "body" /\ ~f.ran
            /\ pc[t] = "done" =>
                  f.result = Result("value", <<"mocked", t>> \o Values(f.args))

C3_Witness ==
    \E t \in Finished :
        /\ frame[t].decl = NoArgsA /\ OwnMock(t).kind = "Return"
        /\ frame[t].result = Result("value", <<"mocked", "t1">>)

\* C4: when the installed replacement panics with payload P, the call panics
\* with P and the original body does not run.
C4_UnwindFidelity ==
    \A t \in Dispatched :
        LET f == frame[t] IN
        OwnMock(t).kind = "Panic" =>
            /\ pc[t] # "body" /\ ~f.ran
            /\ pc[t] = "done" => f.result = Result("panic", <<"panic", t>>)

C4_Witness ==
    \E t \in Finished :
        /\ frame[t].decl = Method /\ OwnMock(t).kind = "Panic"
        /\ frame[t].result = Result("panic", <<"panic", "t1">>)

\* C5: when the installed replacement returns Continue with other argument
\* values, the body observes, in every binding, the value of the returned
\* tuple and not the caller's.
C5_MutationVisible ==
    \A t \in Finished :
        LET f == frame[t] IN
        OwnMock(t).kind = "Modify" =>
            /\ f.ran
            /\ \A i \in DOMAIN f.args :
                  /\ f.seen[i].v = <<"modified", t, ToString(i)>>
                  /\ f.seen[i].v # f.args[i].v
            /\ f.result = original_body(f.decl, Values(f.seen))

C5_Witness ==
    \E t \in Finished :
        /\ frame[t].decl = Method /\ OwnMock(t).kind = "Modify"
        /\ frame[t].seen[2].v = <<"modified", "t1", "2">>

\* C6: a call of f::<B> is decided only by the replacements installed for
\* f::<B>: it invokes the last of them, and none at all (the original body
\* runs) when there is none, whatever is installed for f::<A>, A # B; so for
\* A = &char, B = &mut char and the other way round.
C6_PerInstantiation ==
    \A t \in Dispatched :
        LET f == frame[t] IN
        f.decl = GenericFn =>
            /\ f.out.cb = OwnMock(t)
            /\ OwnMock(t) = NoMock /\ pc[t] = "done" =>
                  f.ran /\ f.result = original_body(f.decl, Values(f.args))

C6_Witness ==
    \E t \in Finished :
        /\ frame[t].decl = GenericFn /\ frame[t].inst.T = MutLocalChar
        /\ \E k \in 1..frame[t].at :
              log[t][k].inst.T = RefLocalChar /\ log[t][k].cb.kind = "Return"
        /\ frame[t].result = Result("value", <<"not mocked", "function", "M">>)

\* C7: a test never observes the replacement another test installed for the
\* same function: before its own install the function returns the un-mocked
\* result, after it its own substitute value, under every interleaving.
C7_NoLeakBetweenTests ==
    \A t \in Finished :
        LET f == frame[t] IN
        f.decl = NoArgsB =>
            /\ OwnInstalls(t, f.decl, f.inst, f.at) = {} =>
                  f.result = Result("value", <<"not mocked", "no_args_returns_str">>)
            /\ OwnMock(t).kind = "Return" =>
                  f.result = Result("value", <<"mocked", t>>)

C7_Witness ==
    \E t \in Finished :
        /\ frame[t].decl = NoArgsB
        /\ OwnInstalls(t, NoArgsB, NoInst, frame[t].at) = {}
        /\ frame[t].prior.n > 0
        /\ frame[t].result = Result("value", <<"not mocked", "no_args_returns_str">>)

\* C8 as stated: the registry is one process-wide state, so that a replacement
\* installed for I by any thread decides every later call of I from any thread.
C8_ProcessWide ==
    \A t \in Dispatched :
        frame[t].prior.n >= 1 => frame[t].out.cb = frame[t].prior.cb

\* C8 (amended): the registry is per-thread state, created empty: what a
\* thread installed for I stays in its registry, and decides its later calls
\* of I, until the same thread installs for I again; nothing expires or is
\* removed, and no thread sees what another installed.
C8_PerThreadPersistent ==
    /\ \A t \in scenario.threads :
          /\ DOMAIN mock_store[t] = {e.id : e \in Range(log[t])}
          /\ \A id \in DOMAIN mock_store[t] :
                mock_store[t][id] =
                    log[t][Latest({k \in DOMAIN log[t] : log[t][k].id = id})].cb
    /\ \A t \in Dispatched : frame[t].out.cb = OwnMock(t)

C8_Witness ==
    \E t \in Finished, u \in Finished :
        /\ t # u /\ frame[t].decl = NoArgsB /\ frame[u].decl = NoArgsB
        /\ frame[t].prior = Prior(Callback("Return", u), 1)
        /\ frame[t].out.cb = NoMock
        /\ frame[u].out.cb = Callback("Return", u)

\* C9 as stated: after two installs for I, whoever made them, every later call
\* of I invokes the second.
C9_LastWriteWinsAnyThread ==
    \A t \in Dispatched :
        frame[t].prior.n >= 2 => frame[t].out.cb = frame[t].prior.cb

\* C9 (amended): install always succeeds, and after two installs c1 then c2
\* made by one thread for I, every later call of I from that thread invokes c2
\* only (last write wins, no merging or chaining).
C9_LastWriteWinsInThread ==
    /\ \A t \in scenario.threads :
          log[t] # <<>> =>
              LET e == log[t][Len(log[t])]
              IN  store_get(mock_store[t], e.id) = e.cb
    /\ \A t \in Dispatched :
          LET f == frame[t]
              ks == OwnInstalls(t, f.decl, f.inst, f.at)
          IN  Cardinality(ks) >= 2 =>
                /\ f.out.cb = log[t][Latest(ks)].cb
                /\ \A k \in ks :
                      log[t][k].cb # log[t][Latest(ks)].cb => f.out.cb # log[t][k].cb

C9_Witness ==
    \E t \in Finished :
        LET f == frame[t]
            ks == OwnInstalls(t, f.decl, f.inst, f.at)
        IN  /\ Cardinality(ks) = 2
            /\ \E k \in ks : log[t][k].cb.kind = "Return" /\ k # Latest(ks)
            /\ log[t][Latest(ks)].cb.kind = "Panic"
            /\ f.result.kind = "panic"

\* C10: lifetimes take no part in identity: a replacement installed for
\* function::<&char> is applied to a call whose &char argument has any
\* lifetime, and a call with the type argument &i32 still runs the original
\* body.
AnyRefChar == {RefLocalChar, RefStaticChar}

C10_LifetimesShareIdentity ==
    \A t \in Dispatched :
        LET f == frame[t]
            own == {k \in 1..f.at : log[t][k].decl = GenericFn}
            chars == {k \in own : log[t][k].inst.T \in AnyRefChar}
            i32s == {k \in own : log[t][k].inst.T = RefLocalI32}
        IN  f.decl = GenericFn =>
              /\ f.inst.T \in AnyRefChar /\ chars # {} =>
                    f.out.cb = log[t][Latest(chars)].cb
              /\ f.inst.T = RefLocalI32 /\ i32s = {} =>
                    /\ f.out.cb = NoMock
                    /\ pc[t] = "done" =>
                          /\ f.ran
                          /\ f.result = Result("value", <<"not mocked", "function", "3">>)

C10_Witness ==
    \E t \in Finished :
        /\ frame[t].decl = GenericFn /\ frame[t].inst.T = RefStaticChar
        /\ frame[t].at > 0
        /\ \A k \in 1..frame[t].at :
              log[t][k].inst.T = RefLocalChar /\ log[t][k].cb.kind = "Return"
        /\ frame[t].result = Result("value", <<"mocked", "t1", "S">>)

\* C11: identity is scope-qualified: what is installed for a function decides
\* nothing for the function of the same name declared in another scope; that
\* one invokes only what was installed for itself, and returns its original
\* result as long as nothing is.
SameName(d) == {e \in Decls : e # d /\ e.sig.ident = d.sig.ident}

C11_ScopeQualified ==
    \A t \in Dispatched :
        LET f == frame[t] IN
        (\E k \in 1..f.at : log[t][k].decl \in SameName(f.decl)) =>
            /\ f.out.cb = OwnMock(t)
            /\ OwnMock(t) = NoMock /\ pc[t] = "done" =>
                  /\ f.ran
                  /\ f.result = Result("value", <<"not mocked", f.decl.sig.ident>>)

C11_Witness ==
    \E t \in Finished :
        /\ frame[t].decl = NoArgsB /\ frame[t].at = 1
        /\ log[t][1].decl = NoArgsA /\ log[t][1].cb.kind = "Return"
        /\ frame[t].result = Result("value", <<"not mocked", "no_args_returns_str">>)

\* The calls during which one install was made for their function: the one
\* before the call began, and the one its dispatch found made.
Raced == {t \in Dispatched : frame[t].prior.n = frame[t].before.n + 1}

\* C12 as stated: when an install for I by another thread falls together with
\* a call of I, the call invokes the callback installed before or the new one.
C12_OldOrNewAcrossThreads ==
    \A t \in Raced : frame[t].out.cb \in {frame[t].before.cb, frame[t].prior.cb}

\* C12 (amended): an install for I by another thread that falls together
\* with a call of I does not reach the call: the call invokes, whole, the
\* callback its own thread last installed for I, or finds no entry when its
\* thread installed none; never a partially written entry.
C12_OwnEntryWhole ==
    \A t \in Raced :
        /\ frame[t].prior.cb.by # t
        /\ frame[t].out.cb = OwnMock(t)
        /\ frame[t].out.cb \in {NoMock} \cup {Callback(k, t) : k \in scenario.kinds}

C12_Witness ==
    \E t \in Raced \cap Finished :
        /\ frame[t].prior.cb = Callback("Panic", CHOOSE u \in Threads : u # t)
        /\ OwnMock(t) = Callback("Return", t)
        /\ frame[t].result = Result("value", <<"mocked", t>>)

\* C13: a panic of the original body, reached with no replacement or through
\* Continue, is not caught by the header: the Err arm does not run, no
\* binding is forgotten, the caller receives the body's panic, and what the
\* bindings own is dropped once by the unwinding, as without the header.
C13_BodyPanicUncaught ==
    \A t \in Finished :
        LET f == frame[t] IN
        f.ran /\ original_body(f.decl, Values(f.seen)).kind = "panic" =>
            /\ f.result = original_body(f.decl, Values(f.seen))
            /\ OwnMock(t) = NoMock => f.result = original_body(f.decl, Values(f.args))
            /\ f.steps = <<"extract", "dispatch", "Continue", "body">>
            /\ f.st.fgt = {} /\ f.st.exit = "none"
            /\ \A i \in DOMAIN f.seen :
                  f.seen[i].r # 0 => f.drops[f.seen[i].r] = 1

C13_Witness ==
    \E t \in Finished :
        /\ frame[t].decl = Panicking /\ OwnMock(t).kind = "Modify"
        /\ frame[t].result =
              Result("panic", <<"body panicked", "panics", "modified", "t1", "1">>)

\* C14: the steps of a call run in the order extract, dispatch, one of the
\* branches Continue, Return, Unwind, and only then, and only after Continue,
\* the body; a finished call went through exactly one branch; when the body
\* starts every binding holds the element of the tuple Continue carried.
Branches == {"Continue", "Return", "Unwind"}

C14_StepOrder ==
    \A t \in Live :
        LET f == frame[t]
            n == Len(f.steps)
            inputs == f.decl.sig.inputs
        IN  /\ n >= 1 /\ f.steps[1] = "extract"
            /\ n >= 2 => f.steps[2] = "dispatch"
            /\ n >= 3 => f.steps[3] \in Branches /\ f.steps[3] = f.out.kind
            /\ n >= 4 => n = 4 /\ f.steps[3] = "Continue" /\ f.steps[4] = "body"
            /\ f.ran <=> n = 4
            /\ pc[t] = "done" => n >= 3
            /\ pc[t] = "body" =>
                  /\ f.steps = <<"extract", "dispatch", "Continue">>
                  /\ \A i \in DOMAIN inputs :
                        f.st.bind[ParamName(inputs[i])] = f.out.tup[i]
                  /\ inputs # <<>> => f.st.tupfgt

C14_Witness ==
    \E t \in Finished :
        /\ frame[t].decl = Method /\ OwnMock(t).kind = "Modify"
        /\ frame[t].steps = <<"extract", "dispatch", "Continue", "body">>

\* C15: the identity expression is the identifier, bare for a free function,
\* behind Self:: for an inherent method and a default trait method, behind
\* <Self as Trait>:: for a method of a trait implementation, followed by the
\* names of the type parameters in declared order and of no lifetime or const
\* parameter; signatures that differ in lifetime or const parameters only
\* get the same expression.
TypeParams(generics) == SelectSeq(generics, LAMBDA g : g.tag = "Type")

C15_IdentityExpression ==
    expansion.stage = "expanded" =>
        LET name == expansion.out.full_fn_name
            b == expansion.builder
            sig == expansion.sig
            tps == TypeParams(sig.generics)
        IN  /\ name.ident = sig.ident
            /\ b = StaticFn => name.prefix = <<>>
            /\ b \in {StructImpl, TraitDefault} => name.prefix = <<"Self">>
            /\ b = TraitImpl("Trait") => name.prefix = <<"Self", "as", "Trait">>
            /\ name.generics = [i \in DOMAIN tps |-> tps[i].ident]
            /\ \A g \in GenericLists :
                  TypeParams(g) = tps =>
                      build(b, [sig EXCEPT !.generics = g]).full_fn_name = name

C15_Witness ==
    /\ expansion.stage = "expanded"
    /\ expansion.builder = TraitImpl("Trait")
    /\ expansion.sig.generics = <<LifetimeParam("a"), TypeParam("T")>>
    /\ expansion.out.full_fn_name =
          [prefix |-> <<"Self", "as", "Trait">>, ident |-> "f", generics |-> <<"T">>]

\* C16: when a parameter is neither the receiver nor a simple name binding,
\* build aborts with an error that names that parameter and produces no
\* header; otherwise it produces a header that names the receiver self and
\* every other parameter by its own identifier.
SimpleBinding(fn_arg) == fn_arg.tag = "Receiver" \/ fn_arg.pat = "Ident"

C16_PatternAborts ==
    expansion.stage \in {"expanded", "aborted"} =>
        LET inputs == expansion.sig.inputs
            bad == {i \in DOMAIN inputs : ~SimpleBinding(inputs[i])}
            out == expansion.out
            own(i) == IF inputs[i] = Receiver THEN "self" ELSE inputs[i].ident
        IN  /\ bad # {} =>
                  /\ expansion.stage = "aborted" /\ ~out.ok
                  /\ DOMAIN out = {"ok", "error"}
                  /\ out.error[1] = "Mocktopus internal error: invalid fn arg type"
                  /\ out.error[2] \in {inputs[i] : i \in bad}
            /\ bad = {} =>
                  /\ expansion.stage = "expanded" /\ out.ok
                  /\ Len(out.extract_args) = Len(inputs)
                  /\ \A i \in DOMAIN inputs :
                        /\ out.extract_args[i].name = own(i)
                        /\ out.arms["Continue"][i].name = own(i)
                        /\ out.forget_args[i].name = own(i)

C16_Witness ==
    /\ expansion.stage = "aborted"
    /\ expansion.sig.inputs = <<TypedIdent("x"), TypedTuple("(a, b)")>>
    /\ expansion.out.error =
          <<"Mocktopus internal error: invalid fn arg type", TypedTuple("(a, b)")>>

\* C17: a function without arguments is intercepted like any other: the
\* header extracts the empty tuple, dispatches it under the identity of the
\* function to what was installed for it, and resolves by the same branches:
\* Continue restores nothing and the body runs, Return returns the
\* substitute, Unwind re-raises the panic.
C17_EmptyArgsIntercepted ==
    \A t \in Dispatched :
        LET f == frame[t]
            header == build(f.decl.builder, f.decl.sig)
        IN  f.decl.sig.inputs = <<>> =>
              /\ header.ok /\ header.extract_args = <<>> /\ f.args = <<>>
              /\ f.steps[2] = "dispatch"
              /\ f.id = target_id(f.decl, f.inst)
              /\ f.out.cb = OwnMock(t)
              /\ OwnMock(t).kind \in {"NoMock", "Continue", "Modify"} => f.out.kind = "Continue"
              /\ OwnMock(t).kind = "Return" => f.out.kind = "Return"
              /\ OwnMock(t).kind = "Panic" => f.out.kind = "Unwind"
              /\ pc[t] = "done" =>
                    /\ f.out.kind = "Continue" =>
                          /\ f.ran /\ f.seen = <<>>
                          /\ f.result = original_body(f.decl, <<>>)
                    /\ f.out.kind = "Return" =>
                          ~f.ran /\ f.result = Result("value", <<"mocked", t>>)
                    /\ f.out.kind = "Unwind" =>
                          ~f.ran /\ f.result = Result("panic", <<"panic", t>>)

C17_Witness ==
    \E t \in Finished :
        /\ frame[t].decl = NoArgsA /\ OwnMock(t).kind = "Panic"
        /\ frame[t].steps = <<"extract", "dispatch", "Unwind">>
        /\ frame[t].result = Result("panic", <<"panic", "t1">>)

\* C18: when several threads call the same function at once, every call
\* works on its own tuple and bindings: its dispatch is given the copy of its
\* own argument, Continue writes the tuple its own dispatch returned into
\* its own binding, and the value or panic it delivers is the one its own
\* dispatch produced, whatever steps the other calls take in between.
Concurrent == {t \in Live : \E u \in Live : u # t /\ frame[u].decl = frame[t].decl}

C18_CallsPrivate ==
    \A t \in Concurrent :
        LET f == frame[t] IN
        f.decl = OneArg =>
            /\ f.args = <<Val(<<"arg", t>>, 1)>>
            /\ pc[t] = "dispatch" => f.st.tup = f.args /\ f.st.bind["arg"] = f.args[1]
            /\ t \in Dispatched =>
                  /\ f.out = IF f.out.cb = NoMock
                             THEN Outcome("Continue", f.args, <<>>, <<>>, NoMock)
                             ELSE invoke(f.out.cb, f.args)
                  /\ f.out.kind = "Return" => f.out.val[3] = "arg" /\ f.out.val[4] = t
            /\ pc[t] \in {"body", "done"} /\ f.out.kind = "Continue" =>
                  f.st.bind["arg"] = f.out.tup[1]
            /\ pc[t] = "done" =>
                  /\ f.out.kind = "Continue" => f.seen = f.out.tup
                  /\ f.out.kind = "Return" => f.result = Result("value", f.out.val)
                  /\ f.out.kind = "Unwind" => f.result = Result("panic", f.out.val)

C18_Witness ==
    /\ Concurrent = Threads
    /\ pc = [t \in Threads |-> "resolve"]
    /\ frame["t1"].out.val = <<"mocked", "t1", "arg", "t1">>
    /\ frame["t2"].out.cb.kind = "Modify"
    /\ frame["t2"].out.tup = <<Val(<<"modified", "t2", "1">>, 2)>>

\* C19: extraction, restoration and forgetting go through the bindings in
\* the same order, the declared one, receiver first: element i of the tuple
\* is the copy of binding i, Continue puts element i of the returned tuple
\* into binding i, and Return and Unwind forget every extracted binding, and
\* each of them once.
C19_SameEnumeration ==
    \A t \in Live :
        LET f == frame[t]
            inputs == f.decl.sig.inputs
            header == build(f.decl.builder, f.decl.sig)
            name(i) == IF inputs[i] = Receiver THEN "self" ELSE inputs[i].ident
        IN  /\ \A i \in DOMAIN inputs : inputs[i] = Receiver => i = 1
            /\ Len(header.extract_args) = Len(inputs)
            /\ Len(header.forget_args) = Len(inputs)
            /\ \A i \in DOMAIN inputs :
                  /\ header.extract_args[i].name = name(i)
                  /\ header.forget_args[i].name = name(i)
                  /\ header.restore_args[i] = [op |-> "swap", name |-> name(i), index |-> i - 1]
            /\ pc[t] = "dispatch" =>
                  \A i \in DOMAIN inputs :
                      f.st.tup[i] = f.args[i] /\ f.st.bind[name(i)] = f.args[i]
            /\ pc[t] \in {"body", "done"} /\ f.out.kind = "Continue" =>
                  /\ f.st.fgt = {}
                  /\ \A i \in DOMAIN inputs : f.st.bind[name(i)] = f.out.tup[i]
            /\ pc[t] = "done" /\ f.out.kind \in {"Return", "Unwind"} =>
                  /\ f.st.fgt = {name(i) : i \in DOMAIN inputs}
                  /\ \A i \in DOMAIN inputs : f.st.bind[name(i)] = f.args[i]

C19_Witness ==
    \E t \in Finished :
        /\ frame[t].decl = Method /\ frame[t].out.kind = "Unwind"
        /\ frame[t].st.fgt = {"self", "arg"}
        /\ frame[t].st.bind = [n \in {"self", "arg"} |->
                                  IF n = "self" THEN Val(<<"self0">>, 1)
                                  ELSE Val(<<"arg0">>, 2)]

====
